---- MODULE Spec2Model ----
(***************************************************************************)
(* Model of the pipx bootstrap installer.                                  *)
(*                                                                         *)
(*   prog = "pipx_installer" : src/src/pipx_installer/__init__.py          *)
(*   prog = "install_pipx"   : src/src/install_pipx.py                     *)
(*                                                                         *)
(* A path is a sequence of tokens ("/" and name fragments), so that string *)
(* concatenation is \o and str.startswith is a prefix test on tokens:      *)
(* "/home/u2/bin" is <<"/","home","/","u","2","/","bin">> and shares the   *)
(* string prefix "/home/u" without lying inside that directory.            *)
(***************************************************************************)
EXTENDS Naturals, Sequences, FiniteSets, TLC

VARIABLES
    prog,             \* which of the two entry points runs
    args,             \* the parsed command line (argparse namespace)
    paths,            \* os.getenv("PATH").split(":")
    dirs,             \* the search-path directories: mode and their entry "pipx"
    fs,               \* the installation target: install_dir and, when it is a symlink, its destination
    pc,               \* position of the program
    i,                \* index of the probe loop over reversed(paths)
    DEFAULT_BIN_DIR,  \* module-level result of _get_default_bin_dir()
    found_by,         \* which return statement of _get_default_bin_dir produced it
    steps,            \* pipeline steps entered so far, with their outcome
    procs,            \* subprocess.run invocations so far, with their outcome
    fslog,            \* filesystem mutations performed so far, in order
    err,              \* the exception the run died of, or "none"
    init              \* the filesystem as it was at program start

vars == <<prog, args, paths, dirs, fs, pc, i, DEFAULT_BIN_DIR, found_by,
          steps, procs, fslog, err, init>>

----------------------------------------------------------------------------
(* Bounds *)

MaxPathLen == 3
MaxRunPathLen == 1

----------------------------------------------------------------------------
(* Paths *)

None == <<"None">>

env_home == <<"/", "home", "/", "u">>

LocalBin == env_home \o <<"/", ".local", "/", "bin">>
HomeBin == env_home \o <<"/", "bin">>
HomeTools == env_home \o <<"/", "tools">>
SiblingBin == <<"/", "home", "/", "u", "2", "/", "bin">>
UsrBin == <<"/", "usr", "/", "bin">>
OptBin == <<"/", "opt", "/", "bin">>

AllDirs == {LocalBin, HomeBin, HomeTools, SiblingBin, UsrBin, OptBin}

PREFERRED_BIN_DIRS == << <<"~", "/", ".local", "/", "bin">>, <<"~", "/", "bin">> >>

InstallDirPath == env_home \o <<"/", ".local", "/", "share", "/", "pipx-venv">>
LinkDestPath == <<"/", "srv", "/", "pipx-venv">>

Range(s) == {s[k] : k \in 1..Len(s)}

startswith(s, prefix) ==
    /\ Len(prefix) <= Len(s)
    /\ SubSeq(s, 1, Len(prefix)) = prefix

expanduser(p) ==
    IF p # <<>> /\ Head(p) = "~" THEN env_home \o Tail(p) ELSE p

----------------------------------------------------------------------------
(* The installation target: pathlib primitives over fs *)

TargetPathOf(p) == IF p = "install_dir" THEN InstallDirPath ELSE LinkDestPath

resolve(f, p) == IF f[p].kind = "symlink" THEN "link_dest" ELSE p

exists(f, p) == f[resolve(f, p)].kind # "absent"

is_symlink(f, p) == f[p].kind = "symlink"

is_dir(f, p) == f[resolve(f, p)].kind = "dir"

iterdir(f, p) == f[resolve(f, p)].entries

is_path_free(f, target, empty_dir_ok) ==
    IF ~exists(f, target) /\ ~is_symlink(f, target) THEN TRUE
    ELSE IF empty_dir_ok /\ is_dir(f, target) /\ iterdir(f, target) = {} THEN TRUE
    ELSE FALSE

Absent == [kind |-> "absent", entries |-> {}]

\* a force that removes nothing
remove_path_noop(f, target) == f

\* shutil.rmtree of a directory, unlink of anything else: either way the path is gone
remove_path(f, target) == [f EXCEPT ![target] = Absent]

remove_op(f, target) == IF is_dir(f, target) THEN "rmtree" ELSE "unlink"

VenvEntries == {"pyvenv.cfg", "bin/pip"}

EnvBuilderCanCreate(f, p) == f[p].kind \in {"absent", "dir"}

EnvBuilderCreate(f, p, clear) ==
    [f EXCEPT ![p] = [kind |-> "dir",
                      entries |-> (IF clear THEN {} ELSE f[p].entries) \cup VenvEntries]]

PipInstallPipx(f, p) ==
    [f EXCEPT ![p].entries = @ \cup {"bin/pipx"}]

----------------------------------------------------------------------------
(* Search-path directories: touch(exist_ok=False), unlink, symlink_to *)

NoEntry == <<>>
ProbeFile == <<"probe">>
OtherEntry == <<"other">>
LinkTo(target) == <<"link">> \o target

CanCreateIn(d, dir) ==
    /\ dir \in DOMAIN d
    /\ d[dir].mode = "rw"
    /\ d[dir].pipx = NoEntry

CreateError(d, dir) ==
    IF dir \notin DOMAIN d \/ d[dir].mode = "missing" THEN "FileNotFoundError"
    ELSE IF d[dir].pipx # NoEntry THEN "FileExistsError"
    ELSE "PermissionError"

----------------------------------------------------------------------------
(* _get_default_bin_dir: the two scans that read only PATH and HOME *)

RECURSIVE ScanPreferred(_, _)
ScanPreferred(ps, k) ==
    IF k > Len(PREFERRED_BIN_DIRS) THEN None
    ELSE IF expanduser(PREFERRED_BIN_DIRS[k]) \in Range(ps) THEN PREFERRED_BIN_DIRS[k]
    ELSE ScanPreferred(ps, k + 1)

RECURSIVE ScanHome(_, _)
ScanHome(ps, k) ==
    IF k = 0 THEN None
    ELSE IF startswith(ps[k], env_home) THEN ps[k]
    ELSE ScanHome(ps, k - 1)

Found(dir, by) == [dir |-> dir, by |-> by]

\* the home scan tried before the conventional candidates
StaticScan_HomeFirst(ps) ==
    IF ScanHome(ps, Len(ps)) # None THEN Found(ScanHome(ps, Len(ps)), "home")
    ELSE IF ScanPreferred(ps, 1) # None THEN Found(ScanPreferred(ps, 1), "preferred")
    ELSE Found(None, "none")

StaticScan(ps) ==
    IF ScanPreferred(ps, 1) # None THEN Found(ScanPreferred(ps, 1), "preferred")
    ELSE IF ScanHome(ps, Len(ps)) # None THEN Found(ScanHome(ps, Len(ps)), "home")
    ELSE Found(None, "none")

\* touch(exist_ok=True): an existing entry does not stop the probe
touch_exist_ok(d, dir) == dir \in DOMAIN d /\ d[dir].mode = "rw"

\* test_file.touch(exist_ok=False) raises OSError unless the entry can be created
touch_ok(d, dir) == CanCreateIn(d, dir)

unlink(d, dir) == [d EXCEPT ![dir].pipx = NoEntry]

----------------------------------------------------------------------------
(* Import of pipx_installer: DEFAULT_BIN_DIR = _get_default_bin_dir() *)

Discover ==
    /\ pc = "import"
    /\ LET r == StaticScan(paths) IN
         IF r.by # "none"
         THEN /\ DEFAULT_BIN_DIR' = r.dir
              /\ found_by' = r.by
              /\ pc' = "create_venv"
              /\ i' = i
         ELSE /\ pc' = "probe"
              /\ i' = Len(paths)
              /\ UNCHANGED <<DEFAULT_BIN_DIR, found_by>>
    /\ UNCHANGED <<prog, args, paths, dirs, fs, steps, procs, fslog, err, init>>

ProbeTouch ==
    /\ pc = "probe"
    /\ i > 0
    /\ IF touch_ok(dirs, paths[i])
       THEN /\ dirs' = [dirs EXCEPT ![paths[i]].pipx = ProbeFile]
            /\ fslog' = Append(fslog, <<"touch", paths[i]>>)
            /\ pc' = "unlink"
            /\ i' = i
       ELSE /\ i' = i - 1
            /\ UNCHANGED <<dirs, fslog, pc>>
    /\ UNCHANGED <<prog, args, paths, fs, DEFAULT_BIN_DIR, found_by, steps, procs, err, init>>

ProbeUnlink ==
    /\ pc = "unlink"
    /\ dirs' = unlink(dirs, paths[i])
    /\ fslog' = Append(fslog, <<"unlink", paths[i]>>)
    /\ DEFAULT_BIN_DIR' = paths[i]
    /\ found_by' = "probe"
    /\ pc' = "create_venv"
    /\ UNCHANGED <<prog, args, paths, fs, i, steps, procs, err, init>>

ProbeExhausted ==
    /\ pc = "probe"
    /\ i = 0
    /\ DEFAULT_BIN_DIR' = None
    /\ found_by' = "none"
    /\ pc' = "create_venv"
    /\ UNCHANGED <<prog, args, paths, dirs, fs, i, steps, procs, fslog, err, init>>

----------------------------------------------------------------------------
(* Shared pieces of the two pipelines *)

Step(name, ok) == [name |-> name, ok |-> ok]

Proc(cmd, ok) == [cmd |-> cmd, ok |-> ok]

\* subprocess.run without check=True: the exit status is ignored
check_ignored(ok) == TRUE

\* subprocess.run(..., check=True) returns normally only on exit status 0
check(ok) == ok

\* the link aimed at the environment's pip instead of its pipx
PipxBinPath_pip(f) == TargetPathOf(resolve(f, "install_dir")) \o <<"/", "bin", "/", "pip">>

PipxBinPath(f) == TargetPathOf(resolve(f, "install_dir")) \o <<"/", "bin", "/", "pipx">>

symlink_to(d, dir, target) == [d EXCEPT ![dir].pipx = LinkTo(target)]

\* argparse: --bin-dir defaults to DEFAULT_BIN_DIR
bin_dir == IF args.bin_dir # None THEN args.bin_dir ELSE DEFAULT_BIN_DIR

\* install_pipx.py: Path(os.environ.get("PIPX_BIN_DIR", DEFAULT_PIPX_BIN_DIR)).resolve()
LOCAL_BIN_DIR == IF args.pipx_bin_dir # None THEN args.pipx_bin_dir ELSE LocalBin

----------------------------------------------------------------------------
(* pipx_installer.cli *)

create_venv ==
    /\ prog = "pipx_installer"
    /\ pc = "create_venv"
    /\ LET p == resolve(fs, "install_dir")
           free == is_path_free(fs, p, TRUE)
       IN
         IF ~free /\ ~args.force
         THEN /\ steps' = Append(steps, Step("create", FALSE))
              /\ pc' = "failed"
              /\ err' = "FileExistsError"
              /\ UNCHANGED <<fs, fslog>>
         ELSE LET removing == ~free /\ ~args.dry_run
                  f1 == IF removing THEN remove_path(fs, p) ELSE fs
                  l1 == IF removing
                        THEN Append(fslog, <<remove_op(fs, p), TargetPathOf(p)>>)
                        ELSE fslog
              IN
                /\ fs' = IF args.dry_run THEN f1 ELSE EnvBuilderCreate(f1, p, FALSE)
                /\ fslog' = IF args.dry_run THEN l1
                            ELSE Append(l1, <<"mkvenv", TargetPathOf(p)>>)
                /\ steps' = Append(steps, Step("create", TRUE))
                /\ pc' = "install_pipx"
                /\ err' = err
    /\ UNCHANGED <<prog, args, paths, dirs, i, DEFAULT_BIN_DIR, found_by, procs, init>>

install_pipx ==
    /\ prog = "pipx_installer"
    /\ pc = "install_pipx"
    /\ \E ok \in BOOLEAN :
         LET ran == ~args.dry_run
             good == ~ran \/ check(ok)
         IN
           /\ ran \/ ok
           /\ procs' = IF ran THEN Append(procs, Proc("pip install pipx", ok)) ELSE procs
           /\ fs' = IF ran /\ ok THEN PipInstallPipx(fs, resolve(fs, "install_dir")) ELSE fs
           /\ steps' = Append(steps, Step("install", ~ran \/ ok))
           /\ pc' = IF ~good THEN "failed"
                    ELSE IF args.no_export_bin THEN "done" ELSE "export_bin"
           /\ err' = IF ~good THEN "CalledProcessError" ELSE err
    /\ UNCHANGED <<prog, args, paths, dirs, i, DEFAULT_BIN_DIR, found_by, fslog, init>>

export_bin ==
    /\ prog = "pipx_installer"
    /\ pc = "export_bin"
    /\ IF bin_dir = None
       THEN /\ steps' = Append(steps, Step("symlink", FALSE))
            /\ pc' = "failed"
            /\ err' = "TypeError"
            /\ UNCHANGED <<dirs, fslog>>
       ELSE LET b == expanduser(bin_dir) IN
              IF args.dry_run
              THEN /\ steps' = Append(steps, Step("symlink", TRUE))
                   /\ pc' = "done"
                   /\ UNCHANGED <<dirs, fslog, err>>
              ELSE IF CanCreateIn(dirs, b)
                   THEN /\ dirs' = symlink_to(dirs, b, PipxBinPath(fs))
                        /\ fslog' = Append(fslog, <<"symlink", b>>)
                        /\ steps' = Append(steps, Step("symlink", TRUE))
                        /\ pc' = "done"
                        /\ err' = err
                   ELSE /\ steps' = Append(steps, Step("symlink", FALSE))
                        /\ pc' = "failed"
                        /\ err' = CreateError(dirs, b)
                        /\ UNCHANGED <<dirs, fslog>>
    /\ UNCHANGED <<prog, args, paths, fs, i, DEFAULT_BIN_DIR, found_by, procs, init>>

----------------------------------------------------------------------------
(* install_pipx.cli *)

CreateEnv ==
    /\ prog = "install_pipx"
    /\ pc = "create_venv"
    /\ LET p == resolve(fs, "install_dir")
           next == IF args.upgrade_deps THEN "upgrade_deps" ELSE "install_pipx"
       IN
         IF args.dry_run
         THEN /\ steps' = Append(steps, Step("create", TRUE))
              /\ pc' = next
              /\ UNCHANGED <<fs, fslog, err>>
         ELSE IF EnvBuilderCanCreate(fs, p)
              THEN /\ fs' = EnvBuilderCreate(fs, p, args.clear)
                   /\ fslog' = Append(fslog, <<"mkvenv", TargetPathOf(p)>>)
                   /\ steps' = Append(steps, Step("create", TRUE))
                   /\ pc' = next
                   /\ err' = err
              ELSE /\ steps' = Append(steps, Step("create", FALSE))
                   /\ pc' = "failed"
                   /\ err' = "EnvBuilderError"
                   /\ UNCHANGED <<fs, fslog>>
    /\ UNCHANGED <<prog, args, paths, dirs, i, DEFAULT_BIN_DIR, found_by, procs, init>>

UpgradeDeps ==
    /\ prog = "install_pipx"
    /\ pc = "upgrade_deps"
    /\ \E ok \in BOOLEAN :
         LET ran == ~args.dry_run
             good == ~ran \/ check(ok)
         IN
           /\ ran \/ ok
           /\ procs' = IF ran THEN Append(procs, Proc("pip install --upgrade", ok)) ELSE procs
           /\ steps' = Append(steps, Step("upgrade", ~ran \/ ok))
           /\ pc' = IF ~good THEN "failed" ELSE "install_pipx"
           /\ err' = IF ~good THEN "CalledProcessError" ELSE err
    /\ UNCHANGED <<prog, args, paths, dirs, fs, i, DEFAULT_BIN_DIR, found_by, fslog, init>>

InstallPipx ==
    /\ prog = "install_pipx"
    /\ pc = "install_pipx"
    /\ \E ok \in BOOLEAN :
         LET ran == ~args.dry_run
             good == ~ran \/ check(ok)
         IN
           /\ ran \/ ok
           /\ procs' = IF ran THEN Append(procs, Proc("pip install pipx", ok)) ELSE procs
           /\ fs' = IF ran /\ ok THEN PipInstallPipx(fs, resolve(fs, "install_dir")) ELSE fs
           /\ steps' = Append(steps, Step("install", ~ran \/ ok))
           /\ pc' = IF ~good THEN "failed"
                    ELSE IF args.ensure_path THEN "ensurepath" ELSE "done"
           /\ err' = IF ~good THEN "CalledProcessError" ELSE err
    /\ UNCHANGED <<prog, args, paths, dirs, i, DEFAULT_BIN_DIR, found_by, fslog, init>>

EnsurePath ==
    /\ prog = "install_pipx"
    /\ pc = "ensurepath"
    /\ \E ok \in BOOLEAN :
         LET ran == ~args.dry_run
             good == ~ran \/ check(ok)
         IN
           /\ ran \/ ok
           /\ procs' = IF ran THEN Append(procs, Proc("pipx ensurepath", ok)) ELSE procs
           /\ steps' = Append(steps, Step("ensurepath", ~ran \/ ok))
           /\ pc' = IF ~good THEN "failed" ELSE "symlink"
           /\ err' = IF ~good THEN "CalledProcessError" ELSE err
    /\ UNCHANGED <<prog, args, paths, dirs, fs, i, DEFAULT_BIN_DIR, found_by, fslog, init>>

Symlink ==
    /\ prog = "install_pipx"
    /\ pc = "symlink"
    /\ IF args.dry_run
       THEN /\ steps' = Append(steps, Step("symlink", TRUE))
            /\ pc' = "done"
            /\ UNCHANGED <<dirs, fslog, err>>
       ELSE IF CanCreateIn(dirs, LOCAL_BIN_DIR)
            THEN /\ dirs' = symlink_to(dirs, LOCAL_BIN_DIR, PipxBinPath(fs))
                 /\ fslog' = Append(fslog, <<"symlink", LOCAL_BIN_DIR>>)
                 /\ steps' = Append(steps, Step("symlink", TRUE))
                 /\ pc' = "done"
                 /\ err' = err
            ELSE /\ steps' = Append(steps, Step("symlink", FALSE))
                 /\ pc' = "failed"
                 /\ err' = CreateError(dirs, LOCAL_BIN_DIR)
                 /\ UNCHANGED <<dirs, fslog>>
    /\ UNCHANGED <<prog, args, paths, fs, i, DEFAULT_BIN_DIR, found_by, procs, init>>

----------------------------------------------------------------------------
(* Initial states: the command line, the environment and the filesystem *)

EmptyDir == [kind |-> "dir", entries |-> {}]
OldDir == [kind |-> "dir", entries |-> {"old"}]
File == [kind |-> "file", entries |-> {}]
SymlinkNode == [kind |-> "symlink", entries |-> {}]

TargetStates ==
    {[install_dir |-> x, link_dest |-> Absent] : x \in {Absent, EmptyDir, OldDir, File}}
    \cup {[install_dir |-> SymlinkNode, link_dest |-> y] : y \in {Absent, EmptyDir, OldDir, File}}

Writable == [mode |-> "rw", pipx |-> NoEntry]
Occupied == [mode |-> "rw", pipx |-> OtherEntry]
ReadOnly == [mode |-> "ro", pipx |-> NoEntry]
Missing == [mode |-> "missing", pipx |-> NoEntry]

DirState(l, u, o) ==
    [x \in AllDirs |-> IF x = LocalBin THEN l
                       ELSE IF x = UsrBin THEN u
                       ELSE IF x = OptBin THEN o
                       ELSE Writable]

DirStates ==
    {DirState(l, u, o) : l \in {Writable, Occupied},
                         u \in {Writable, Occupied, ReadOnly, Missing},
                         o \in {Writable, Occupied, ReadOnly, Missing}}

PathLists(n) == UNION {[1..k -> AllDirs] : k \in 1..n}

NoArgs ==
    [dry_run |-> FALSE, force |-> FALSE, no_export_bin |-> FALSE, bin_dir |-> None,
     clear |-> FALSE, upgrade_deps |-> FALSE, ensure_path |-> TRUE, pipx_bin_dir |-> None]

\* --bin-dir and --no-export-bin are mutually exclusive
InstallerArgs ==
    {a \in {[NoArgs EXCEPT !.dry_run = d, !.force = f, !.no_export_bin = n, !.bin_dir = b] :
                d \in BOOLEAN, f \in BOOLEAN, n \in BOOLEAN, b \in {None, UsrBin}} :
        ~(a.no_export_bin /\ a.bin_dir # None)}

ScriptArgs ==
    {[NoArgs EXCEPT !.dry_run = d, !.clear = c, !.upgrade_deps = u, !.ensure_path = e,
                    !.pipx_bin_dir = b] :
        d \in BOOLEAN, c \in BOOLEAN, u \in BOOLEAN, e \in BOOLEAN, b \in {None, UsrBin}}

InitCommon ==
    /\ fs \in TargetStates
    /\ dirs \in DirStates
    /\ i = 0
    /\ DEFAULT_BIN_DIR = None
    /\ found_by = "none"
    /\ steps = <<>>
    /\ procs = <<>>
    /\ fslog = <<>>
    /\ err = "none"
    /\ init = [fs |-> fs, dirs |-> dirs]

InitInstaller ==
    /\ prog = "pipx_installer"
    /\ args \in InstallerArgs
    /\ paths \in PathLists(MaxRunPathLen)
    /\ pc = "import"
    /\ InitCommon

InitScript ==
    /\ prog = "install_pipx"
    /\ args \in ScriptArgs
    /\ paths = <<UsrBin>>
    /\ pc = "create_venv"
    /\ InitCommon

Init == InitInstaller \/ InitScript

Next ==
    \/ Discover
    \/ ProbeTouch
    \/ ProbeUnlink
    \/ ProbeExhausted
    \/ create_venv
    \/ install_pipx
    \/ export_bin
    \/ CreateEnv
    \/ UpgradeDeps
    \/ InstallPipx
    \/ EnsurePath
    \/ Symlink

Spec == Init /\ [][Next]_vars

(* Import of pipx_installer alone, over longer search paths *)

InitDiscovery ==
    /\ prog = "pipx_installer"
    /\ args = NoArgs
    /\ paths \in PathLists(MaxPathLen)
    /\ pc = "import"
    /\ fs = [install_dir |-> Absent, link_dest |-> Absent]
    /\ InitCommon

NextDiscovery ==
    \/ Discover
    \/ ProbeTouch
    \/ ProbeUnlink
    \/ ProbeExhausted

SpecDiscovery == InitDiscovery /\ [][NextDiscovery]_vars

----------------------------------------------------------------------------
(* Vocabulary of the properties *)

Installer == prog = "pipx_installer"

Discovered == pc \notin {"import", "probe", "unlink"}

StepNames == {steps[k].name : k \in 1..Len(steps)}

Completed(name) == \E k \in 1..Len(steps) : steps[k] = Step(name, TRUE)

Entered(name) == name \in StepNames

EnvNode == fs[resolve(init.fs, "install_dir")]

EnvPath == TargetPathOf(resolve(init.fs, "install_dir"))

ExportBinDir == IF Installer THEN expanduser(bin_dir) ELSE LOCAL_BIN_DIR

ExportRequested == IF Installer THEN ~args.no_export_bin ELSE args.ensure_path

Rank(name) ==
    CASE name = "create" -> 1
      [] name = "upgrade" -> 2
      [] name = "install" -> 3
      [] name = "ensurepath" -> 4
      [] name = "symlink" -> 5

NestedUnderHome(p) == startswith(p, env_home \o <<"/">>)

Conventional == {expanduser(PREFERRED_BIN_DIRS[k]) : k \in 1..Len(PREFERRED_BIN_DIRS)}

Last(S) == CHOOSE k \in S : \A j \in S : j <= k

NestedEntries == {k \in 1..Len(paths) : NestedUnderHome(paths[k])}

\* the target as C3 describes it: exists and is not an empty directory
TargetOccupied(f) ==
    \/ f["install_dir"].kind \in {"file", "symlink"}
    \/ f["install_dir"].kind = "dir" /\ f["install_dir"].entries # {}

\* the case of C4, once the creation step has completed
ForcedOverNonEmpty ==
    /\ Installer
    /\ args.force
    /\ ~args.dry_run
    /\ init.fs[resolve(init.fs, "install_dir")] = OldDir
    /\ Completed("create")

\* the case of C6: a real run with export enabled that ended successfully
SuccessfulExport ==
    /\ pc = "done"
    /\ ~args.dry_run
    /\ ExportRequested

----------------------------------------------------------------------------
(* C1: an invocation with --dry-run never creates, deletes or modifies a   *)
(* filesystem path and never invokes a subprocess, from program start      *)
(* (the computation of the default bin directory included) to exit.        *)
C1_DryRunNeverMutates ==
    args.dry_run =>
        /\ dirs = init.dirs
        /\ fs = init.fs
        /\ fslog = <<>>
        /\ procs = <<>>

(* C2: when export is requested and the bin directory is absent, the run   *)
(* fails before any mutation: no environment created, no target removed,   *)
(* no subprocess invoked, no symlink created.                              *)
C2_UnresolvedBinDirFailsFirst ==
    (Installer /\ Discovered /\ ~args.no_export_bin /\ bin_dir = None) =>
        /\ fs = init.fs
        /\ dirs = init.dirs
        /\ procs = <<>>
        /\ (pc \in {"done", "failed"} => pc = "failed")

(* C3: a target that exists and is not an empty directory (a non-empty     *)
(* directory, a file, or a symlink, broken ones included), without         *)
(* --force, makes the pipeline fail with the target-exists error before    *)
(* any subprocess, the target unchanged, in dry-run and real mode alike.   *)
C3_OccupiedTargetRejected ==
    (Installer /\ ~args.force /\ TargetOccupied(init.fs) /\ Entered("create")) =>
        /\ pc = "failed"
        /\ err = "FileExistsError"
        /\ procs = <<>>
        /\ fs = init.fs

(* C4: with --force, in real mode, an existing non-empty target directory  *)
(* is removed recursively before the environment is created: once the      *)
(* creation step has completed none of the prior contents remain and a     *)
(* fresh environment exists at the target.                                 *)
C4_ForceReplacesTarget ==
    ForcedOverNonEmpty =>
        /\ EnvNode.kind = "dir"
        /\ "old" \notin EnvNode.entries
        /\ VenvEntries \subseteq EnvNode.entries
        /\ \E j, k \in 1..Len(fslog) :
             /\ j < k
             /\ fslog[j] = <<"rmtree", EnvPath>>
             /\ fslog[k] = <<"mkvenv", EnvPath>>

\* C4 witness: a forced real run over a non-empty directory, just past creation
C4_Witness ==
    /\ ForcedOverNonEmpty
    /\ pc = "install_pipx"
    /\ init.fs["install_dir"] = OldDir

(* C5: the steps run strictly in the order create, upgrade (only with      *)
(* --upgrade-deps), install, ensure-path, symlink; a step starts only      *)
(* after the previous one succeeded, none runs twice, nothing runs after   *)
(* the first failure, and what the completed steps did stays in place.     *)
C5_StrictSequence ==
    /\ \A j \in 1..Len(steps) :
         j < Len(steps) => steps[j].ok /\ Rank(steps[j].name) < Rank(steps[j + 1].name)
    /\ \A j \in 1..Len(procs) : j < Len(procs) => procs[j].ok
    /\ (steps # <<>> /\ ~steps[Len(steps)].ok) => pc = "failed"
    /\ (procs # <<>> /\ ~procs[Len(procs)].ok) => pc = "failed" /\ ~steps[Len(steps)].ok
    /\ Entered("upgrade") => args.upgrade_deps /\ ~Installer
    /\ (Entered("install") /\ args.upgrade_deps) => Completed("upgrade")
    /\ Entered("install") => Completed("create")
    /\ Entered("ensurepath") => Completed("install") /\ ~Installer
    /\ Entered("symlink") => Completed("install") /\ (Installer \/ Completed("ensurepath"))
    /\ (pc = "failed" /\ ~args.dry_run /\ Completed("create")) =>
         /\ EnvNode.kind = "dir"
         /\ VenvEntries \subseteq EnvNode.entries
         /\ (Completed("install") => "bin/pipx" \in EnvNode.entries)

\* C5 witness: a real run of the script that failed in its fourth step, ensure-path
C5_Witness ==
    /\ ~Installer
    /\ ~args.dry_run
    /\ pc = "failed"
    /\ Len(steps) = Rank("ensurepath")
    /\ steps[Rank("ensurepath")] = Step("ensurepath", FALSE)
    /\ Len(procs) = Len(steps) - 1

(* C6: after a successful real run with export enabled, a symlink named    *)
(* pipx exists in the resolved bin directory and points to                 *)
(* <env_dir>/bin/pipx of the environment this run created.                 *)
C6_SymlinkAfterSuccess ==
    SuccessfulExport =>
        /\ dirs[ExportBinDir].pipx = <<"link">> \o EnvPath \o <<"/", "bin", "/", "pipx">>
        /\ "bin/pipx" \in EnvNode.entries
        /\ \E k \in 1..Len(fslog) : fslog[k] = <<"mkvenv", EnvPath>>

\* C6 witness: success with a probed bin directory and a symlinked install_dir
C6_Witness ==
    /\ SuccessfulExport
    /\ Installer
    /\ found_by = "probe"
    /\ args.bin_dir = None
    /\ init.fs["install_dir"] = SymlinkNode

(* C7: when an entry already exists at <bin_dir>/pipx, the export step     *)
(* follows the force policy of the installation target: without --force    *)
(* it fails and leaves the entry untouched, with --force the entry is      *)
(* overwritten by the new symlink.                                         *)
C7_ExportFollowsForce ==
    (/\ Installer
     /\ ~args.dry_run
     /\ ~args.no_export_bin
     /\ bin_dir # None
     /\ Entered("symlink")
     /\ init.dirs[ExportBinDir].pipx # NoEntry) =>
        IF args.force
        THEN /\ pc = "done"
             /\ dirs[ExportBinDir].pipx = LinkTo(PipxBinPath(fs))
        ELSE /\ pc = "failed"
             /\ dirs[ExportBinDir].pipx = init.dirs[ExportBinDir].pipx

(* C8: whenever the search path contains a conventional user-local bin     *)
(* directory, discovery returns it, wherever it stands and whatever other  *)
(* home-nested or writable directories the path holds; with both on the    *)
(* path, ~/.local/bin is returned.                                         *)
C8_ConventionalWins ==
    Discovered =>
        /\ LocalBin \in Range(paths) =>
             expanduser(DEFAULT_BIN_DIR) = LocalBin
        /\ (HomeBin \in Range(paths) /\ LocalBin \notin Range(paths)) =>
             expanduser(DEFAULT_BIN_DIR) = HomeBin

\* C8 witness: ~/.local/bin first on a path that also holds ~/bin and ~/tools
C8_Witness ==
    /\ Discovered
    /\ Len(paths) = 3
    /\ paths[1] = LocalBin
    /\ paths[2] = HomeBin
    /\ paths[3] = HomeTools
    /\ dirs[LocalBin].pipx # NoEntry

(* C9: with no conventional directory on the search path, discovery        *)
(* returns the last entry nested under the home directory, never an entry  *)
(* outside it (such as a sibling sharing the home path as a string         *)
(* prefix), and reaches the writability probe only when no entry is        *)
(* nested under home.                                                      *)
C9_HomeScanStaysInsideHome ==
    (Discovered /\ Range(paths) \cap Conventional = {}) =>
        IF NestedEntries # {}
        THEN /\ found_by = "home"
             /\ DEFAULT_BIN_DIR = paths[Last(NestedEntries)]
        ELSE found_by \in {"probe", "none"}

(* C10: the writability probe has no net effect: when discovery is over    *)
(* every search-path directory holds what it held before (no probe file    *)
(* left, no earlier entry named pipx removed or altered), and a directory  *)
(* is returned by the probe only if the probe file was created and then    *)
(* removed there.                                                          *)
C10_ProbeLeavesNoTrace ==
    /\ pc # "unlink" => dirs = init.dirs
    /\ Discovered =>
         IF found_by = "probe"
         THEN fslog = << <<"touch", DEFAULT_BIN_DIR>>, <<"unlink", DEFAULT_BIN_DIR>> >>
         ELSE fslog = <<>>

\* C10 witness: the probe skipped an occupied directory and returned a later one
C10_Witness ==
    /\ Discovered
    /\ found_by = "probe"
    /\ i < Len(paths)
    /\ dirs[paths[Len(paths)]].pipx = OtherEntry
    /\ dirs[DEFAULT_BIN_DIR].pipx = NoEntry

====
